---- MODULE Spec2Model ----
(***************************************************************************)
(* A model of src/lib.rs of traject: Step::new compiles a path-segment     *)
(* template such as "foo{bar}baz" into its generalized form, its literal   *)
(* parts, its placeholder names and a regular expression; match_segment    *)
(* runs that expression over a segment and returns the captured values.    *)
(*                                                                         *)
(* A string is a sequence of one-character strings.  The regex crate is    *)
(* modelled on the fragment of its syntax that the alphabet below can      *)
(* spell: literals, '.', the '?' repetition operator (greedy, lazy and     *)
(* nested) and the named groups "(?P<name>.+)" that get_variables_re       *)
(* writes.                                                                 *)
(***************************************************************************)
EXTENDS Naturals, Sequences, FiniteSets

VARIABLES s, status, generalized, parts, names, variables_re,
          segment, matched, captures

vars == <<s, status, generalized, parts, names, variables_re,
          segment, matched, captures>>

(* ------------------------------ bounds --------------------------------- *)

\* A template is the concatenation of at most MaxItems items of Items.
MaxItems == 3

\* A segment handed to match_segment has at most MaxInputLen characters.
MaxInputLen == 3

Letters == {"a", "b"}
Digits == {"1"}
WordChars == Letters \cup Digits \cup {"_"}

\* The pieces templates are made of: the two braces, word characters, the
\* pattern metacharacters '.' and '?', and two well-formed placeholders.
Items == { <<"{">>, <<"}">>, <<"a">>, <<"_">>, <<"1">>, <<".">>, <<"?">>,
           <<"{", "a", "}">>, <<"{", "_", "1", "}">> }

InputChars == {"a", "b"}

RECURSIVE Flatten(_)
Flatten(ss) == IF ss = <<>> THEN <<>> ELSE Head(ss) \o Flatten(Tail(ss))

Templates == { Flatten(q) : q \in UNION { [1..n -> Items] : n \in 0..MaxItems } }

Inputs == UNION { [1..n -> InputChars] : n \in 0..MaxInputLen }

(* --------------------------- string helpers ---------------------------- *)

\* s[a..b], empty when b < a
Slice(str, a, b) == IF b < a THEN <<>> ELSE SubSeq(str, a, b)

\* str::contains(ch)
Contains(str, ch) == \E i \in 1..Len(str) : str[i] = ch

\* the least index >= from at which ch occurs in str, 0 if none
RECURSIVE IndexOf(_, _, _)
IndexOf(str, ch, from) ==
    IF from > Len(str) THEN 0
    ELSE IF str[from] = ch THEN from
    ELSE IndexOf(str, ch, from + 1)

(* ---------------------------- PATH_VARIABLE ---------------------------- *)

\* PATH_VARIABLE is the regex \{([^}]*)\}

\* The leftmost match of PATH_VARIABLE at or after from: <<j, k>> with
\* str[j] = "{", str[k] = "}" the first "}" after j; <<0, 0>> when there is
\* none.  [^}]* also runs over "{", so the match starts at the first "{"
\* that has a "}" after it, which is the first "{" if any has one.
PathVariableFind(str, from) ==
    LET j == IndexOf(str, "{", from)
        k == IF j = 0 THEN 0 ELSE IndexOf(str, "}", j + 1)
    IN  IF k = 0 THEN <<0, 0>> ELSE <<j, k>>

\* Regex::find_iter: the successive non-overlapping matches, left to right
RECURSIVE FindIter(_, _)
FindIter(str, from) ==
    LET m == PathVariableFind(str, from)
    IN  IF m[1] = 0 THEN <<>> ELSE <<m>> \o FindIter(str, m[2] + 1)

\* what a match is replaced by: the marker "{}" in Step::new, the named
\* group format!("(?P<{}>.+)", &caps[0][1..caps[0].len() - 1]) in
\* get_variables_re
Replacement(kind, match) ==
    IF kind = "marker" THEN <<"{", "}">>
    ELSE <<"(", "?", "P", "<">> \o Slice(match, 2, Len(match) - 1)
         \o <<">", ".", "+", ")">>

\* Regex::replace_all: the text outside the matches is kept, each match is
\* replaced
RECURSIVE ReplaceFrom(_, _, _)
ReplaceFrom(str, from, kind) ==
    LET m == PathVariableFind(str, from)
    IN  IF m[1] = 0 THEN Slice(str, from, Len(str))
        ELSE Slice(str, from, m[1] - 1)
             \o Replacement(kind, Slice(str, m[1], m[2]))
             \o ReplaceFrom(str, m[2] + 1, kind)

\* a replace that forgets the text after the last match
RECURSIVE ReplaceDropTail(_, _)
ReplaceDropTail(str, from) ==
    LET m == PathVariableFind(str, from)
    IN  IF m[1] = 0 THEN (IF from = 1 THEN str ELSE <<>>)
        ELSE Slice(str, from, m[1] - 1) \o <<"{", "}">>
             \o ReplaceDropTail(str, m[2] + 1)

GeneralizeDropTail(str) == ReplaceDropTail(str, 1)

\* PATH_VARIABLE.replace_all(s, "{}")
Generalize(str) == ReplaceFrom(str, 1, "marker")

(* ------------------------------ get_parts ------------------------------ *)

\* the least index >= from at which "{}" starts in str, 0 if none
RECURSIVE IndexOfMarker(_, _)
IndexOfMarker(str, from) ==
    IF from + 1 > Len(str) THEN 0
    ELSE IF str[from] = "{" /\ str[from + 1] = "}" THEN from
    ELSE IndexOfMarker(str, from + 1)

RECURSIVE SplitFrom(_, _)
SplitFrom(str, from) ==
    LET j == IndexOfMarker(str, from)
    IN  IF j = 0 THEN << Slice(str, from, Len(str)) >>
        ELSE << Slice(str, from, j - 1) >> \o SplitFrom(str, j + 2)

\* generalized.split("{}")
Split(str) == SplitFrom(str, 1)

\* get_parts without the check of the interior parts
GetPartsNoConsecutiveCheck(gen) ==
    LET ps == Split(gen)
    IN  IF \E i \in 1..Len(ps) : Contains(ps[i], "{") \/ Contains(ps[i], "}")
        THEN [ok |-> FALSE, parts |-> <<>>]
        ELSE [ok |-> TRUE, parts |-> ps]

\* get_parts without the check for a leftover brace
GetPartsNoBraceCheck(gen) ==
    LET ps == Split(gen)
    IN  IF Len(ps) > 1 /\ \E i \in 2..(Len(ps) - 1) : ps[i] = <<>>
        THEN [ok |-> FALSE, parts |-> <<>>]
        ELSE [ok |-> TRUE, parts |-> ps]

GetParts(gen) ==
    LET ps == Split(gen)
    IN  IF Len(ps) > 1 /\ \E i \in 2..(Len(ps) - 1) : ps[i] = <<>>
        THEN [ok |-> FALSE, parts |-> <<>>]       \* consecutive variables
        ELSE IF \E i \in 1..Len(ps) :
                    Contains(ps[i], "{") \/ Contains(ps[i], "}")
        THEN [ok |-> FALSE, parts |-> <<>>]       \* invalid step
        ELSE [ok |-> TRUE, parts |-> ps]

(* --------------------- is_identifier and get_names --------------------- *)

\* IDENTIFIER: ^[^\d\W]\w*$
IsIdentifier(name) ==
    /\ Len(name) >= 1
    /\ name[1] \in WordChars \ Digits
    /\ \A i \in 2..Len(name) : name[i] \in WordChars

\* the body of the first match alone, as Regex::find would give it
BodiesFirstOnly(str) ==
    LET m == PathVariableFind(str, 1)
    IN  IF m[1] = 0 THEN <<>> ELSE << Slice(str, m[1] + 1, m[2] - 1) >>

\* the bodies of the matches, m.as_str()[1..len - 1]
Bodies(str) ==
    LET ms == FindIter(str, 1)
    IN  [i \in 1..Len(ms) |-> Slice(str, ms[i][1] + 1, ms[i][2] - 1)]

\* the loop of get_names from entry i on, seen being the name_set so far
RECURSIVE CheckNames(_, _, _)
CheckNames(ns, i, seen) ==
    IF i > Len(ns) THEN TRUE
    ELSE IF ~IsIdentifier(ns[i]) THEN FALSE       \* illegal identifier
    ELSE IF ns[i] \in seen THEN FALSE             \* duplicate variable
    ELSE CheckNames(ns, i + 1, seen \cup {ns[i]})

\* get_names without the duplicate check
GetNamesNoDuplicateCheck(str) ==
    LET ns == Bodies(str)
    IN  IF \A i \in 1..Len(ns) : IsIdentifier(ns[i])
        THEN [ok |-> TRUE, names |-> ns]
        ELSE [ok |-> FALSE, names |-> <<>>]

GetNames(str) ==
    LET ns == Bodies(str)
    IN  IF CheckNames(ns, 1, {})
        THEN [ok |-> TRUE, names |-> ns]
        ELSE [ok |-> FALSE, names |-> <<>>]

(* --------------------------- get_variables_re -------------------------- *)

\* the pattern text: s with every placeholder rewritten to (?P<name>.+)
VariablesPattern(str) == ReplaceFrom(str, 1, "group")

\* regex-syntax, is_capture_char: a group name starts with a letter or "_"
\* and goes on with letters, digits, "_", ".", "[" and "]"
CaptureNameOk(name) ==
    /\ Len(name) >= 1
    /\ name[1] \in Letters \cup {"_"}
    /\ \A i \in 2..Len(name) :
          name[i] \in Letters \cup Digits \cup {"_", ".", "[", "]"}

NoRegex == [ok |-> FALSE, atoms |-> <<>>, ngroups |-> 0]

\* A repetition operator applied to an atom that carries one already nests
\* ("a???" is (a??)?).  The alternatives of the nested form, in the order
\* the matcher prefers them, begin with the empty one unless both operators
\* are greedy, so the nested form matches as the lazy one does.
Repeat(mod, op) ==
    IF mod = "one" THEN op
    ELSE IF mod = "opt" /\ op = "opt" THEN "opt"
    ELSE "lazy"

\* Regex::new on the pattern text p from position i on, atoms being the
\* expression parsed so far and ng the number of groups in it.  An atom is a
\* literal, "." or a named group around ".+"; mod says whether it is
\* required ("one"), optional and greedy ("opt", x?) or optional and lazy
\* ("lazy", x??).
RECURSIVE RegexParse(_, _, _, _)
RegexParse(p, i, atoms, ng) ==
    IF i > Len(p) THEN [ok |-> TRUE, atoms |-> atoms, ngroups |-> ng]
    ELSE IF p[i] = "?" THEN
        IF atoms = <<>> THEN NoRegex    \* repetition operator missing expression
        ELSE LET lazy == i + 1 <= Len(p) /\ p[i + 1] = "?"
                 n == Len(atoms)
                 op == IF lazy THEN "lazy" ELSE "opt"
             IN  RegexParse(p, IF lazy THEN i + 2 ELSE i + 1,
                            [atoms EXCEPT ![n].mod = Repeat(atoms[n].mod, op)],
                            ng)
    ELSE IF p[i] = "(" THEN
        LET j == IndexOf(p, ">", i)
            name == Slice(p, i + 4, j - 1)
            used == { atoms[k].name : k \in { m \in 1..Len(atoms) :
                                                atoms[m].kind = "group" } }
        IN  IF /\ j # 0
               /\ Slice(p, i + 1, i + 3) = <<"?", "P", "<">>
               /\ Slice(p, j + 1, j + 3) = <<".", "+", ")">>
               /\ CaptureNameOk(name)
               /\ name \notin used     \* duplicate capture group name
            THEN RegexParse(p, j + 4,
                            Append(atoms, [kind |-> "group", ch |-> "",
                                           name |-> name, idx |-> ng + 1,
                                           mod |-> "one"]),
                            ng + 1)
            ELSE NoRegex
    ELSE IF p[i] = "{" THEN NoRegex     \* a counted repetition left open
    ELSE RegexParse(p, i + 1,
                    Append(atoms, [kind |-> IF p[i] = "." THEN "any" ELSE "lit",
                                   ch |-> p[i], name |-> <<>>, idx |-> 0,
                                   mod |-> "one"]),
                    ng)

\* get_variables_re: Regex::new(&variables_re), before the unwrap
GetVariablesRe(str) == RegexParse(VariablesPattern(str), 1, <<>>, 0)

(* ---------------------------- Regex::captures -------------------------- *)

NoMatch == [ok |-> FALSE, caps |-> <<>>]
Unset == [set |-> FALSE, val |-> <<>>]

\* "." matches any character but a line feed
DotMatches(c) == c # "\n"

\* the number of characters from pos on that "." matches in a row
RECURSIVE DotRun(_, _)
DotRun(x, pos) ==
    IF pos > Len(x) \/ ~DotMatches(x[pos]) THEN 0 ELSE 1 + DotRun(x, pos + 1)

\* The backtracking match of atoms re[i..] against x from pos on, in the
\* matcher's order of preference: a greedy operator takes before it skips, a
\* lazy one skips before it takes, ".+" takes the longest run first.  The
\* first complete match is the answer.
RECURSIVE MatchHere(_, _, _, _, _)
RECURSIVE GroupTry(_, _, _, _, _, _)
MatchHere(re, x, i, pos, caps) ==
    IF i > Len(re) THEN [ok |-> TRUE, caps |-> caps]
    ELSE LET a == re[i]
             Take == IF a.kind = "group"
                     THEN GroupTry(re, x, i, pos, DotRun(x, pos), caps)
                     ELSE IF /\ pos <= Len(x)
                             /\ IF a.kind = "any" THEN DotMatches(x[pos])
                                                  ELSE x[pos] = a.ch
                     THEN MatchHere(re, x, i + 1, pos + 1, caps)
                     ELSE NoMatch
             Skip == MatchHere(re, x, i + 1, pos, caps)
         IN  IF a.mod = "one" THEN Take
             ELSE IF a.mod = "opt" THEN (IF Take.ok THEN Take ELSE Skip)
             ELSE (IF Skip.ok THEN Skip ELSE Take)

\* group re[i] = (?P<name>.+) taking k characters, then k - 1, ... down to 1
GroupTry(re, x, i, pos, k, caps) ==
    IF k < 1 THEN NoMatch
    ELSE LET r == MatchHere(re, x, i + 1, pos + k,
                            [caps EXCEPT ![re[i].idx] =
                                [set |-> TRUE,
                                 val |-> Slice(x, pos, pos + k - 1)]])
         IN  IF r.ok THEN r ELSE GroupTry(re, x, i, pos, k - 1, caps)

\* Regex::captures: the leftmost match, the text being searched from each
\* start position in turn
RECURSIVE Captures(_, _, _)
Captures(regex, x, start) ==
    IF start > Len(x) + 1 THEN NoMatch
    ELSE LET r == MatchHere(regex.atoms, x, 1, start,
                            [g \in 1..regex.ngroups |-> Unset])
         IN  IF r.ok THEN r ELSE Captures(regex, x, start + 1)

(* ------------------------ the state and its steps ---------------------- *)

\* status: "init" before Step::new(s) has run, then "ok" (Ok(Step)), "err"
\* (Err(Error)) or "panic" (the unwrap in get_variables_re failed).
\* matched: "idle" before any match_segment, then "some", "none" or "panic"
\* (the expect in match_segment failed).
Init ==
    /\ s \in Templates
    /\ status = "init"
    /\ generalized = <<>>
    /\ parts = <<>>
    /\ names = <<>>
    /\ variables_re = NoRegex
    /\ segment = <<>>
    /\ matched = "idle"
    /\ captures = <<>>

\* Step::new(s)
New ==
    /\ status = "init"
    /\ LET gen == Generalize(s)
           ps == GetParts(gen)
           ns == GetNames(s)
           re == GetVariablesRe(s)
       IN  IF ~ps.ok \/ ~ns.ok
           THEN /\ status' = "err"
                /\ UNCHANGED <<generalized, parts, names, variables_re>>
           ELSE IF ~re.ok
           THEN /\ status' = "panic"
                /\ UNCHANGED <<generalized, parts, names, variables_re>>
           ELSE /\ status' = "ok"
                /\ generalized' = gen
                /\ parts' = ps.parts
                /\ names' = ns.names
                /\ variables_re' = re
    /\ UNCHANGED <<s, segment, matched, captures>>

\* step.match_segment(x)
MatchSegment(x) ==
    /\ status = "ok"
    /\ LET c == Captures(variables_re, x, 1)
       IN  /\ segment' = x
           /\ IF ~c.ok
              THEN matched' = "none" /\ captures' = <<>>
              ELSE IF \E g \in 1..Len(c.caps) : ~c.caps[g].set
              THEN matched' = "panic" /\ captures' = <<>>
              ELSE /\ matched' = "some"
                   /\ captures' = [g \in 1..Len(c.caps) |-> c.caps[g].val]
    /\ UNCHANGED <<s, status, generalized, parts, names, variables_re>>

Next == New \/ \E x \in Inputs : MatchSegment(x)

Spec == Init /\ [][Next]_vars

(* ------------------------------- the claims ---------------------------- *)

\* ps[1] open vs[1] close ps[2] ... open vs[n] close ps[n + 1]
RECURSIVE Interleave(_, _, _, _, _)
Interleave(ps, vs, open, close, i) ==
    IF i > Len(ps) THEN <<>>
    ELSE ps[i]
         \o (IF i <= Len(vs) /\ i < Len(ps) THEN open \o vs[i] \o close
             ELSE <<>>)
         \o Interleave(ps, vs, open, close, i + 1)

IsInfix(w, x) ==
    \E i \in 1..(Len(x) + 1) :
        i + Len(w) - 1 <= Len(x) /\ Slice(x, i, i + Len(w) - 1) = w

\* first character a letter or underscore, the rest word characters
LegalIdentifier(name) ==
    /\ name # <<>>
    /\ name[1] \in Letters \cup {"_"}
    /\ \A i \in 2..Len(name) : name[i] \in Letters \cup Digits \cup {"_"}

\* the braces of str, in order
RECURSIVE BracesOf(_)
BracesOf(str) ==
    IF str = <<>> THEN <<>>
    ELSE (IF Head(str) \in {"{", "}"} THEN <<Head(str)>> ELSE <<>>)
         \o BracesOf(Tail(str))

\* the braces of str are "{", "}", "{", "}", ... and end with "}"
Balanced(str) ==
    LET b == BracesOf(str)
    IN  /\ Len(b) % 2 = 0
        /\ \A i \in 1..Len(b) : b[i] = IF i % 2 = 1 THEN "{" ELSE "}"

\* the names ns[i..] occur in str as "{name}", one after the other, from
\* position from on
RECURSIVE OccurInOrder(_, _, _, _)
OccurInOrder(ns, i, str, from) ==
    IF i > Len(ns) THEN TRUE
    ELSE \E q \in from..Len(str) :
            /\ Slice(str, q, q + Len(ns[i]) + 1) = <<"{">> \o ns[i] \o <<"}">>
            /\ OccurInOrder(ns, i + 1, str, q + Len(ns[i]) + 2)

\* C1: match_segment(x) is Some only if x is parts[0] v1 parts[1] ... vn
\* parts[n] for the returned values v1..vn, with nothing of x left over
\* before or after; a template without placeholders matches x exactly when
\* x is the template.
C1_WholeSegment ==
    /\ matched = "some" =>
          /\ Len(captures) = Len(names)
          /\ segment = Interleave(parts, captures, <<>>, <<>>, 1)
    /\ (matched \in {"some", "none"} /\ names = <<>>) =>
          (matched = "some" <=> segment = s)

\* C1 on the templates made of word characters alone, where no character
\* of the template means anything to the regex syntax: there too a match
\* is reported for a segment that is not the template (the template "a"
\* and the segment "ba"), the search not being anchored.
C1_WordTemplates ==
    (matched = "some" /\ \A i \in 1..Len(s) : s[i] \in WordChars) =>
        segment = s

\* C2: the literal parts are matched character for character: when
\* match_segment(x) is Some, the literal parts stand in x as they are
\* written, around the returned values.
C2_LiteralPartsLiteral ==
    matched = "some" =>
        IsInfix(Interleave(parts, captures, <<>>, <<>>, 1), segment)

\* C3: for a template s without "{" and "}", Step::new(s) succeeds with
\* generalized = s, parts = [s] and names = [].
C3_NoPlaceholders ==
    (status # "init" /\ BracesOf(s) = <<>>) =>
        /\ status = "ok"
        /\ generalized = s
        /\ parts = <<s>>
        /\ names = <<>>

\* C4: when Step::new succeeds there is one literal part more than there
\* are placeholder names.
C4_PartsCount == status = "ok" => Len(parts) = Len(names) + 1

C4_Witness == status = "ok" /\ Len(names) = 2 /\ Len(parts) = 3

\* C5: when Step::new succeeds, names are the placeholder bodies in their
\* order of appearance, each a legal identifier, none twice; and Step::new
\* returns Err when a placeholder body is empty, is no legal identifier or
\* repeats an earlier one.
C5_Names ==
    /\ status = "ok" =>
          /\ Len(names) = Len(SelectSeq(s, LAMBDA c : c = "{"))
          /\ OccurInOrder(names, 1, s, 1)
          /\ \A i \in 1..Len(names) : LegalIdentifier(names[i])
          /\ \A i, j \in 1..Len(names) : names[i] = names[j] => i = j
    /\ LET bs == Bodies(s)
       IN  (/\ status # "init"
            /\ \E i \in 1..Len(bs) :
                  \/ ~LegalIdentifier(bs[i])
                  \/ \E j \in 1..(i - 1) : bs[j] = bs[i])
           => status = "err"

C5_Witness ==
    /\ status = "err"
    /\ GetParts(Generalize(s)).ok
    /\ LET bs == Bodies(s)
       IN  /\ Len(bs) = 2
           /\ bs[1] = bs[2]
           /\ LegalIdentifier(bs[1])

\* C6: Step::new returns Err for a template whose braces are unbalanced;
\* when it succeeds no literal part holds "{" or "}".
C6_Unbalanced ==
    /\ (status # "init" /\ ~Balanced(s)) => status = "err"
    /\ status = "ok" =>
          \A i \in 1..Len(parts) : BracesOf(parts[i]) = <<>>

C6_Witness ==
    /\ status = "err"
    /\ ~Balanced(s)
    /\ \E i \in 1..Len(Bodies(s)) : LegalIdentifier(Bodies(s)[i])

\* C7: Step::new returns Err when two placeholders stand next to each other
\* with nothing between them; when it succeeds with two placeholders or
\* more, every literal part but the first and the last is non-empty.
C7_Consecutive ==
    /\ LET ms == FindIter(s, 1)
       IN  (/\ status # "init"
            /\ \E i \in 1..(Len(ms) - 1) : ms[i][2] + 1 = ms[i + 1][1])
           => status = "err"
    /\ (status = "ok" /\ Len(names) >= 2) =>
          \A i \in 2..(Len(parts) - 1) : parts[i] # <<>>

C7_Witness ==
    /\ status = "ok"
    /\ Len(names) >= 2
    /\ parts[1] = <<>>
    /\ parts[Len(parts)] = <<>>

\* C8: match_segment never fails its expect; its result has one entry for
\* each name, none of them empty.
C8_CapturesPresent ==
    /\ matched # "panic"
    /\ matched = "some" =>
          /\ Len(captures) = Len(names)
          /\ \A i \in 1..Len(captures) : captures[i] # <<>>

\* C9: when Step::new succeeds, parts[0] {names[0]} parts[1] ...
\* {names[n-1]} parts[n] is the raw template, and the same with every
\* {name} written {} is the generalized form.
C9_RoundTrip ==
    status = "ok" =>
        /\ Interleave(parts, names, <<"{">>, <<"}">>, 1) = s
        /\ Interleave(parts, [i \in 1..Len(names) |-> <<>>],
                      <<"{">>, <<"}">>, 1) = generalized

C9_Witness ==
    /\ status = "ok"
    /\ Len(names) = 1
    /\ parts[1] # <<>>
    /\ parts[2] # <<>>

\* C10: Step::new returns Ok or Err and never aborts: the pattern text of
\* a validated template always compiles.
C10_NeverAborts == status # "panic"

====
